---- MODULE Spec2Model ----
(***************************************************************************)
(* Control flow graph restructuring of graphism/exp: the graph core (cfg), *)
(* interval analysis (flow) and the structural analyses (cfa).             *)
(*                                                                         *)
(* A node object is identified by its name; the fields of the node objects *)
(* (entry flag, Pre, Post, Follow, LoopHead, Latch, IsLatch, LoopType) are  *)
(* kept in attr, because Copy shares the node objects between the source   *)
(* and the destination graph.                                              *)
(***************************************************************************)
EXTENDS Integers, Sequences, FiniteSets, TLC

VARIABLES g, attr, pc, res, dgs, sl, tw

vars == <<g, attr, pc, res, dgs, sl, tw>>

(* ---------------------------------------------------------------- bounds *)

\* Number of basic-block names B1..B<MaxNodes> a parsed graph may use.
MaxNodes == 4

\* Number of edges a parsed graph may hold.
MaxEdges == 5

(* ----------------------------------------------------------------- names *)

\* A DOT node name: a letter followed by a decimal number ("B7", "I3").
BName(k) == [pre |-> "B", num |-> k]

IName(k) == [pre |-> "I", num |-> k]

\* The nil node pointer / nil interface value.
Nil == [pre |-> "nil", num |-> 0]

BNames == {BName(k) : k \in 1..MaxNodes}

\* Every interval collapsed by DerivedGraphSeq gets a fresh name I<intNum>.
INames == {IName(k) : k \in 1..(MaxNodes + 1)}

AllNames == BNames \cup INames

\* Byte value of the non-digit chunk of a name, as natsort compares chunks.
ChunkRank(p) == IF p = "B" THEN 66 ELSE IF p = "I" THEN 73 ELSE 0

\* natsort.Less: chunk-wise comparison, digit runs compared as integers.
natsortLess(a, b) ==
    IF a.pre # b.pre THEN ChunkRank(a.pre) < ChunkRank(b.pre)
    ELSE a.num < b.num

(* ------------------------------------------------------------ node fields *)

LoopTypeNone == "none"
LoopTypePreTest == "pre-test"
LoopTypePostTest == "post-test"
LoopTypeEndless == "endless"

\* The zero value of a cfg.Node's fields.
ZeroNode ==
    [entry |-> FALSE, Pre |-> 0, Post |-> 0, Follow |-> Nil, LoopHead |-> Nil,
     Latch |-> Nil, IsLatch |-> FALSE, LoopType |-> LoopTypeNone]

(* ---------------------------------------------------------------- graphs *)

\* cfg.NewGraph: no nodes, no edges, no entry, empty graph ID.
NewGraph == [id |-> <<>>, nodes |-> {}, edges |-> {}, label |-> <<>>, entry |-> Nil]

\* g.From(n): the successors of n; empty for a node that is not in the graph.
From(G, n) == {v \in G.nodes : <<n, v>> \in G.edges}

\* g.To(n): the predecessors of n.
To(G, n) == {u \in G.nodes : <<u, n>> \in G.edges}

\* Graph.AddNode: adds the node object; a node flagged entry becomes g.entry.
AddNode(G, n, flagged) ==
    [G EXCEPT !.nodes = @ \cup {n},
              !.entry = IF flagged THEN n ELSE @]

\* Graph.SetEdge: adds missing end points, then the edge with its label.
SetEdge(G, u, v, l, at) ==
    LET G1 == IF u \in G.nodes THEN G ELSE AddNode(G, u, at[u].entry)
        G2 == IF v \in G1.nodes THEN G1 ELSE AddNode(G1, v, at[v].entry)
    IN  [G2 EXCEPT !.edges = @ \cup {<<u, v>>},
                   !.label = [e \in (DOMAIN G2.label) \cup {<<u, v>>} |->
                                 IF e = <<u, v>> THEN l ELSE G2.label[e]]]

\* RemoveNode that drops the edges of the node and keeps the node.
RemoveNodeEdgesOnly(G, n) ==
    LET keep == {e \in G.edges : e[1] # n /\ e[2] # n}
    IN  [G EXCEPT !.edges = keep,
                  !.label = [e \in keep |-> G.label[e]]]

\* Graph.RemoveNode: drops the node and every edge attached to it; the entry
\* pointer of the graph is left as it is.
RemoveNode(G, n) ==
    LET keep == {e \in G.edges : e[1] # n /\ e[2] # n}
    IN  [G EXCEPT !.nodes = @ \ {n},
                  !.edges = keep,
                  !.label = [e \in keep |-> G.label[e]]]

\* Copy into a new graph: the graph ID, then every node object through
\* AddNode (which sets the entry from the node's flag), then every edge.
Copy(src, at) ==
    LET flagged == {n \in src.nodes : at[n].entry}
    IN  [id |-> src.id, nodes |-> src.nodes, edges |-> src.edges,
         label |-> src.label,
         entry |-> IF flagged = {} THEN Nil ELSE CHOOSE n \in flagged : TRUE]

RECURSIVE MergeLoopNoFilter(_, _, _, _, _)
\* MergeLoop without the test that a neighbour is outside delNodes.
MergeLoopNoFilter(dst, delNodes, todo, preds, succs) ==
    IF todo = {} THEN [dst |-> dst, preds |-> preds, succs |-> succs]
    ELSE LET delNode == CHOOSE n \in todo : TRUE
         IN  MergeLoopNoFilter(RemoveNode(dst, delNode), delNodes,
                               todo \ {delNode},
                               preds \cup To(dst, delNode),
                               succs \cup From(dst, delNode))

RECURSIVE MergeLoop(_, _, _, _, _)
\* The loop of Merge over delNodes: record the predecessors and successors
\* outside delNodes of each node, then remove the node.
MergeLoop(dst, delNodes, todo, preds, succs) ==
    IF todo = {} THEN [dst |-> dst, preds |-> preds, succs |-> succs]
    ELSE LET delNode == CHOOSE n \in todo : TRUE
         IN  MergeLoop(RemoveNode(dst, delNode), delNodes, todo \ {delNode},
                       preds \cup {p \in To(dst, delNode) : p \notin delNodes},
                       succs \cup {s \in From(dst, delNode) : s \notin delNodes})

RECURSIVE AddEdgesLabelled(_, _, _)
\* AddEdges that gives the new edges the label "true".
AddEdgesLabelled(G, es, at) ==
    IF es = {} THEN G
    ELSE LET e == CHOOSE x \in es : TRUE
         IN  AddEdgesLabelled(SetEdge(G, e[1], e[2], "true", at), es \ {e}, at)

RECURSIVE AddEdges(_, _, _)
\* SetEdge(NewEdge(u, v)) for every pair of es: new edges carry no label.
AddEdges(G, es, at) ==
    IF es = {} THEN G
    ELSE LET e == CHOOSE x \in es : TRUE
         IN  AddEdges(SetEdge(G, e[1], e[2], "", at), es \ {e}, at)

\* Merge(src, delNodes, newName): panics when newName is the name of a node
\* of src (AddNode) or a name of delNodes is not a node (nodeWithName).
MergePanics(src, delNodes, newName) ==
    newName \in src.nodes \/ ~(delNodes \subseteq src.nodes)

Merge(src, delNodes, newName, at) ==
    LET dst0 == AddNode(Copy(src, at), newName, FALSE)
        lp == MergeLoop(dst0, delNodes, delNodes, {}, {})
    IN  AddEdges(AddEdges(lp.dst, {<<p, newName>> : p \in lp.preds}, at),
                 {<<newName, s>> : s \in lp.succs}, at)

(* ------------------------------------------------------- orders and sorts *)

\* The sequences that list every element of S once: the orders in which the
\* underlying graph (Go maps) may enumerate a set of nodes.
Enumerations(S) ==
    {f \in [1..Cardinality(S) -> S] : \A i, j \in DOMAIN f : f[i] = f[j] => i = j}

\* The elements of S in the order of enum.
Enumerate(S, enum) == SelectSeq(enum, LAMBDA x : x \in S)

RECURSIVE InsertionSort(_, _)
\* sort.Slice on a short slice: insertion sort. less is the set of pairs
\* <<a, b>> for which the comparison function reports a before b.
InsertionSort(seq, less) ==
    IF Len(seq) <= 1 THEN seq
    ELSE LET sorted == InsertionSort(SubSeq(seq, 1, Len(seq) - 1), less)
             x == seq[Len(seq)]
             \* x moves left while it is less than its left neighbour
             stay == {j \in 1..Len(sorted) : <<x, sorted[j]>> \notin less}
             k == IF stay = {} THEN 0
                  ELSE CHOOSE j \in stay : \A i \in stay : i <= j
         IN  SubSeq(sorted, 1, k) \o <<x>> \o SubSeq(sorted, k + 1, Len(sorted))

\* sortByDOTID without the sort: the nodes as the graph enumerates them.
sortByDOTIDUnsorted(ns) == ns

\* sortByDOTID: the nodes sorted by name in natural order.
sortByDOTID(ns) ==
    LET S == {ns[i] : i \in DOMAIN ns}
    IN  InsertionSort(ns, {p \in S \X S : natsortLess(p[1], p[2])})

\* SortByRevPost with the comparison turned round (a.Post < b.Post).
SortByRevPostFlipped(ns, at) ==
    LET S == {ns[i] : i \in DOMAIN ns}
    IN  InsertionSort(ns, {p \in S \X S : at[p[1]].Post < at[p[2]].Post})

\* SortByRevPost: the nodes by descending Post (less is b.Post < a.Post).
SortByRevPost(ns, at) ==
    LET S == {ns[i] : i \in DOMAIN ns}
    IN  InsertionSort(ns, {p \in S \X S : at[p[2]].Post < at[p[1]].Post})

\* SortByPost: the nodes by ascending Post.
SortByPost(ns, at) ==
    LET S == {ns[i] : i \in DOMAIN ns}
    IN  InsertionSort(ns, {p \in S \X S : at[p[1]].Post < at[p[2]].Post})

(* ------------------------------------------------------------ InitDFSOrder *)

RECURSIVE walk(_, _, _, _)
RECURSIVE walkSuccs(_, _, _, _)
\* walk(n) of InitDFSOrder; st holds the node fields, visited and the
\* counter i. Pre and Post are both taken from i, which only a finished
\* node increments.
walk(G, n, st, enum) ==
    LET st1 == [st EXCEPT !.at[n].Pre = st.i, !.visited = @ \cup {n}]
        st2 == walkSuccs(G, sortByDOTID(Enumerate(From(G, n), enum)), st1, enum)
    IN  [st2 EXCEPT !.at[n].Post = st2.i, !.i = st2.i + 1]

\* The loop over a sorted list of nodes: walk those not yet visited.
walkSuccs(G, succs, st, enum) ==
    IF succs = <<>> THEN st
    ELSE walkSuccs(G, Tail(succs),
                   IF Head(succs) \in st.visited THEN st
                   ELSE walk(G, Head(succs), st, enum),
                   enum)

\* InitDFSOrder(g): walk from the entry, then from every node not visited.
\* A nil entry fails the type assertion of walk: a panic.
InitDFSOrderPanics(G) == G.entry = Nil

InitDFSOrder(G, at, enum) ==
    LET st0 == walk(G, G.entry, [at |-> at, visited |-> {}, i |-> 0], enum)
    IN  walkSuccs(G, sortByDOTID(Enumerate(G.nodes, enum)), st0, enum).at

\* A reverse post-order number that is the post-order number.
RevPostUnreversed(G, at, n) == at[n].Post + 1

\* The reverse post-order number of a node: N - Post.
RevPost(G, at, n) == Cardinality(G.nodes) - at[n].Post

(* --------------------------------------------------------------- Intervals *)

RECURSIVE find2_2NoEntrySkip(_, _, _, _)
\* find2_2 without the test n == entry.
find2_2NoEntrySkip(G, entry, I, scan) ==
    IF scan = <<>> THEN [kind |-> "none"]
    ELSE LET n == Head(scan)
         IN  IF n \in I THEN find2_2NoEntrySkip(G, entry, I, Tail(scan))
             ELSE IF To(G, n) = {} THEN [kind |-> "panic"]
             ELSE IF To(G, n) \subseteq I THEN [kind |-> "found", n |-> n]
             ELSE find2_2NoEntrySkip(G, entry, I, Tail(scan))

RECURSIVE find2_2SomePred(_, _, _, _)
\* find2_2 that takes a node when one of its predecessors is in I.
find2_2SomePred(G, entry, I, scan) ==
    IF scan = <<>> THEN [kind |-> "none"]
    ELSE LET n == Head(scan)
         IN  IF n = entry \/ n \in I THEN find2_2SomePred(G, entry, I, Tail(scan))
             ELSE IF To(G, n) = {} THEN [kind |-> "panic"]
             ELSE IF To(G, n) \cap I # {} THEN [kind |-> "found", n |-> n]
             ELSE find2_2SomePred(G, entry, I, Tail(scan))

RECURSIVE find2_2(_, _, _, _)
\* find2_2 over the nodes still to scan: the first node, not the entry and
\* not in I, all of whose predecessors are in I; a scanned node without
\* predecessors is a panic.
find2_2(G, entry, I, scan) ==
    IF scan = <<>> THEN [kind |-> "none"]
    ELSE LET n == Head(scan)
         IN  IF n = entry \/ n \in I THEN find2_2(G, entry, I, Tail(scan))
             ELSE IF To(G, n) = {} THEN [kind |-> "panic"]
             ELSE IF To(G, n) \subseteq I THEN [kind |-> "found", n |-> n]
             ELSE find2_2(G, entry, I, Tail(scan))

RECURSIVE find3(_, _, _, _)
\* find3: the first node, not in H and not in I, with a predecessor in I.
find3(G, I, H, scan) ==
    IF scan = <<>> THEN [kind |-> "none"]
    ELSE LET n == Head(scan)
         IN  IF (\E k \in DOMAIN H : H[k] = n) \/ n \in I
             THEN find3(G, I, H, Tail(scan))
             ELSE IF To(G, n) = {} THEN [kind |-> "panic"]
             ELSE IF To(G, n) \cap I # {} THEN [kind |-> "found", n |-> n]
             ELSE find3(G, I, H, Tail(scan))

RECURSIVE grow(_, _, _, _)
\* Steps 2.2/2.3: add nodes to I(h) until find2_2 finds none.
grow(G, entry, I, scan) ==
    LET r == find2_2(G, entry, I, scan)
    IN  IF r.kind = "found" THEN grow(G, entry, I \cup {r.n}, scan)
        ELSE [panic |-> r.kind = "panic", nodes |-> I]

RECURSIVE headers(_, _, _, _)
\* Step 3: push onto H the nodes find3 finds, until it finds none.
headers(G, I, H, scan) ==
    LET r == find3(G, I, H, scan)
    IN  IF r.kind = "found" THEN headers(G, I, Append(H, r.n), scan)
        ELSE [panic |-> r.kind = "panic", H |-> H]

RECURSIVE intervalsFrom(_, _, _, _, _, _)
\* The loop of Intervals over the queue H, i the position of the queue.
intervalsFrom(G, entry, scan, H, i, acc) ==
    IF i > Len(H) THEN [panic |-> FALSE, Is |-> acc]
    ELSE LET h == H[i]
             I == grow(G, entry, {h}, scan)
             hs == headers(G, I.nodes, H, scan)
         IN  IF I.panic \/ hs.panic THEN [panic |-> TRUE, Is |-> acc]
             ELSE intervalsFrom(G, entry, scan, hs.H, i + 1,
                                Append(acc, [Head |-> h, nodes |-> I.nodes]))

\* Intervals(g, entry): every scan is over SortByRevPost(g.Nodes()).
Intervals(G, entry, at, enum) ==
    intervalsFrom(G, entry, SortByRevPost(Enumerate(G.nodes, enum), at),
                  <<entry>>, 1, <<>>)

(* ------------------------------------------------ building the input graph *)

\* The node the parser flags as the entry (label="entry"). No operation
\* compares the name of the entry with another name to any effect, so the
\* entry is B1 and the other nodes take any of the names.
EntryName == BName(1)

\* The node objects as the parser leaves them: zero fields, one entry flag.
ParsedNodes == [n \in AllNames |-> [ZeroNode EXCEPT !.entry = (n = EntryName)]]

\* The parser's result: an entry node, flagged; nodes and edges follow.
Init ==
    /\ attr = ParsedNodes
    /\ g = AddNode(NewGraph, EntryName, TRUE)
    /\ pc = "build"
    /\ res = <<>>
    /\ dgs = <<>>
    /\ sl = <<>>
    /\ tw = <<>>

\* An edge from a node of the graph to a node of the graph or to a new one.
BuildEdge ==
    /\ pc = "build"
    /\ Cardinality(g.edges) < MaxEdges
    /\ \E u \in g.nodes, v \in BNames :
          /\ <<u, v>> \notin g.edges
          /\ g' = SetEdge(g, u, v, "", attr)
    /\ UNCHANGED <<attr, pc, res, dgs, sl, tw>>

\* Graph.AddNode of a new node that is not the entry: no edge reaches it yet.
BuildNode ==
    /\ pc = "build"
    /\ \E n \in BNames \ g.nodes : g' = AddNode(g, n, attr[n].entry)
    /\ UNCHANGED <<attr, pc, res, dgs, sl, tw>>

\* Nodes reachable from the nodes of S along edges of G.
RECURSIVE ReachFrom(_, _)
ReachFrom(G, S) ==
    LET T == S \cup {v \in G.nodes : \E u \in S : <<u, v>> \in G.edges}
    IN  IF T = S THEN S ELSE ReachFrom(G, T)

\* Every node of the graph is reachable from its entry.
AllReachable(G) == G.entry \in G.nodes /\ ReachFrom(G, {G.entry}) = G.nodes

(* ------------------------------------------------------------------ Merge *)

\* The name Merge gives the new node: one that names no node of the graph.
MergeNames == {IName(1)}

\* cfg.Merge called on the parsed graph.
DoMerge ==
    /\ pc = "build"
    /\ \E S \in SUBSET g.nodes, m \in MergeNames :
          res' = [del |-> S, new |-> m,
                  panic |-> MergePanics(g, S, m),
                  dst |-> IF MergePanics(g, S, m) THEN NewGraph
                          ELSE Merge(g, S, m, attr)]
    /\ pc' = "merged"
    /\ UNCHANGED <<g, attr, dgs, sl, tw>>

NextMerge == BuildEdge \/ DoMerge

SpecMerge == Init /\ [][NextMerge]_vars

\* Nodes outside S with an edge into S, and nodes outside S with an edge
\* from S, in the source graph.
ExternalPreds(G, S) ==
    {p \in G.nodes \ S : \E s \in S : <<p, s>> \in G.edges}

ExternalSuccs(G, S) ==
    {q \in G.nodes \ S : \E s \in S : <<s, q>> \in G.edges}

\* C1: Merge(G,S,m) with m fresh has the nodes (nodes(G) \ S) + m; the
\* predecessors of m are the nodes outside S that had an edge into S, its
\* successors the nodes outside S that had an edge from S, and m has no
\* edge to itself.
C1_MergeCorrect ==
    pc = "merged" =>
        /\ ~res.panic
        /\ res.dst.nodes = (g.nodes \ res.del) \cup {res.new}
        /\ To(res.dst, res.new) = ExternalPreds(g, res.del)
        /\ From(res.dst, res.new) = ExternalSuccs(g, res.del)
        /\ <<res.new, res.new>> \notin res.dst.edges

\* A merge of a set that holds a cycle and has predecessors and successors
\* outside.
C1_Witness ==
    /\ pc = "merged"
    /\ \E a \in res.del, b \in res.del :
          a # b /\ <<a, b>> \in g.edges /\ <<b, a>> \in g.edges
    /\ ExternalPreds(g, res.del) # {}
    /\ ExternalSuccs(g, res.del) # {}
    /\ To(res.dst, res.new) # {}
    /\ From(res.dst, res.new) # {}

\* C6: the entry is preserved by Merge: the old entry when it is outside S,
\* the new node when it is in S; the entry is a node of the result.
C6_EntryPreserved ==
    pc = "merged" =>
        /\ (g.entry \notin res.del => res.dst.entry = g.entry)
        /\ (g.entry \in res.del => res.dst.entry = res.new)
        /\ res.dst.entry \in res.dst.nodes


(* ------------------------------------------------ numbering and intervals *)

\* cfg.InitDFSOrder called on the parsed graph; the graph enumerates its
\* nodes and successors in any order.
DoInitDFSOrder ==
    /\ pc = "build"
    /\ \E enum \in Enumerations(g.nodes) :
          attr' = InitDFSOrder(g, attr, enum)
    /\ pc' = "numbered"
    /\ UNCHANGED <<g, res, dgs, sl, tw>>

\* flow.Intervals called on the parsed graph, numbered or not.
DoIntervals ==
    /\ pc \in {"build", "numbered"}
    /\ \E enum \in Enumerations(g.nodes) :
          res' = [numbered |-> (pc = "numbered")] @@
                 Intervals(g, g.entry, attr, enum)
    /\ pc' = "intervals"
    /\ UNCHANGED <<g, attr, dgs, sl, tw>>

NextOrder == BuildEdge \/ BuildNode \/ DoInitDFSOrder \/ DoIntervals

SpecOrder == Init /\ [][NextOrder]_vars

\* The nodes an interval list covers, and the nodes of one interval.
IntervalNodes(Is) == UNION {Is[k].nodes : k \in DOMAIN Is}

\* C2: on a graph whose nodes are all reachable from the entry, Intervals
\* returns (no panic) intervals that are pairwise disjoint, that together
\* hold exactly the nodes of the graph, and the first of which is headed by
\* the entry.
C2_IntervalsPartition ==
    (pc = "intervals" /\ AllReachable(g)) =>
        /\ ~res.panic
        /\ \A j, k \in DOMAIN res.Is :
              j # k => res.Is[j].nodes \cap res.Is[k].nodes = {}
        /\ IntervalNodes(res.Is) = g.nodes
        /\ Len(res.Is) >= 1
        /\ res.Is[1].Head = g.entry

\* Intervals has split a reachable graph of four nodes into several
\* intervals, one of them of several nodes.
C2_Witness ==
    /\ pc = "intervals"
    /\ AllReachable(g)
    /\ Cardinality(g.nodes) = MaxNodes
    /\ ~res.panic
    /\ Len(res.Is) >= 2
    /\ \E k \in DOMAIN res.Is : Cardinality(res.Is[k].nodes) >= 2

\* Some cycle of G runs only through nodes of S.
CycleWithin(G, S) ==
    LET sub == [G EXCEPT !.nodes = S, !.edges = G.edges \cap (S \X S)]
    IN  \E n \in S : n \in ReachFrom(sub, From(sub, n))

\* C3: for every interval I(h) Intervals returns, an edge from outside I(h)
\* to a node of I(h) targets h, and no cycle runs only through nodes of
\* I(h) other than h.
C3_SingleEntry ==
    (pc = "intervals" /\ ~res.panic) =>
        \A k \in DOMAIN res.Is :
            LET I == res.Is[k]
            IN  /\ I.Head \in I.nodes
                /\ \A e \in g.edges :
                      (e[1] \notin I.nodes /\ e[2] \in I.nodes) => e[2] = I.Head
                /\ ~CycleWithin(g, I.nodes \ {I.Head})

\* An interval other than the first, entered from outside at its header,
\* that holds a cycle through the header and another node; another cycle of
\* the graph crosses intervals.
C3_Witness ==
    /\ pc = "intervals"
    /\ ~res.panic
    /\ \E k \in DOMAIN res.Is :
          LET I == res.Is[k]
          IN  /\ k > 1
              /\ Cardinality(I.nodes) >= 2
              /\ CycleWithin(g, I.nodes)
              /\ \E e \in g.edges : e[1] \notin I.nodes /\ e[2] = I.Head
              /\ \E e \in g.edges : e[1] \in I.nodes /\ e[2] \notin I.nodes

\* C8: after InitDFSOrder on a graph of N nodes, all reachable from the
\* entry, Post maps the nodes one-to-one onto 0..N-1 with the entry at N-1;
\* N - Post maps them one-to-one onto 1..N with the entry at 1; and
\* SortByRevPost, whatever the order of its argument, returns every node
\* once, in strictly increasing N - Post, the entry first.
C8_PostOrder ==
    (pc = "numbered" /\ AllReachable(g)) =>
        LET N == Cardinality(g.nodes)
        IN  /\ {attr[n].Post : n \in g.nodes} = 0..(N - 1)
            /\ \A m, n \in g.nodes : attr[m].Post = attr[n].Post => m = n
            /\ attr[g.entry].Post = N - 1
            /\ {RevPost(g, attr, n) : n \in g.nodes} = 1..N
            /\ RevPost(g, attr, g.entry) = 1
            /\ \A enum \in Enumerations(g.nodes) :
                  LET s == SortByRevPost(enum, attr)
                  IN  /\ Len(s) = N
                      /\ {s[i] : i \in 1..N} = g.nodes
                      /\ \A i \in 1..(N - 1) :
                            RevPost(g, attr, s[i]) < RevPost(g, attr, s[i + 1])
                      /\ s[1] = g.entry

\* A numbered reachable graph of four nodes with a branch and a cycle, whose
\* reverse post-order is not the order of the names.
C8_Witness ==
    /\ pc = "numbered"
    /\ AllReachable(g)
    /\ Cardinality(g.nodes) = MaxNodes
    /\ \E n \in g.nodes : Cardinality(From(g, n)) >= 2
    /\ CycleWithin(g, g.nodes)
    /\ \E m, n \in g.nodes :
          natsortLess(m, n) /\ RevPost(g, attr, n) < RevPost(g, attr, m)

C20_PreDistinct ==
    pc = "numbered" =>
        /\ \A u \in g.nodes : \A v \in g.nodes \ {u} : attr[u].Pre # attr[v].Pre
        /\ {attr[n].Pre : n \in g.nodes} = 0..(Cardinality(g.nodes) - 1)

(* --------------------------------------------------------- DerivedGraphSeq *)

\* Graph.Entry(): the entry field of the graph.
Entry(G) == G.entry

\* The graph IDs DerivedGraphSeq sets, as the pieces of the formatted string.
LevelID(i) == <<"G", ToString(i)>>

MergedID(i, intNum) == <<"G", ToString(i), "_b_", ToString(intNum)>>

\* G.SetDOTID(id).
SetDOTID(G, id) == [G EXCEPT !.id = id]

\* DerivedGraphSeq(src) up to its loop: G^1 is src itself, renamed "G1".
\* rec tells that G is the graph object last appended to Gs.
DGSStart ==
    /\ pc = "build"
    /\ pc' = "dgs"
    /\ dgs' = [Gs |-> <<SetDOTID(g, LevelID(1))>>, G |-> SetDOTID(g, LevelID(1)),
               rec |-> TRUE, Is |-> <<>>, k |-> 1, intNum |-> 1, i |-> 2,
               status |-> "test"]
    /\ UNCHANGED <<g, attr, res, sl, tw>>

\* The loop condition len(G.Nodes()) > 1 and, when it holds, the call of
\* Intervals(G, G.Entry()) on the graph, which nothing has numbered.
DGSTest ==
    /\ pc = "dgs"
    /\ dgs.status = "test"
    /\ IF Cardinality(dgs.G.nodes) > 1
       THEN \E enum \in Enumerations(dgs.G.nodes) :
                LET r == Intervals(dgs.G, Entry(dgs.G), attr, enum)
                IN  dgs' = [dgs EXCEPT !.Is = r.Is, !.k = 1,
                                       !.status = IF r.panic THEN "panic"
                                                  ELSE "merge"]
       ELSE dgs' = [dgs EXCEPT !.status = "returned"]
    /\ UNCHANGED <<g, attr, pc, res, sl, tw>>

\* One turn of the loop over Is: node(n) of the nodes of the interval (a
\* panic on a nil node), "_a" appended to the ID of G, then
\* G = Merge(G, delNodes, "I<intNum>") renamed "G<i-1>_b_<intNum>".
DGSMerge ==
    /\ pc = "dgs"
    /\ dgs.status = "merge"
    /\ dgs.k <= Len(dgs.Is)
    /\ LET I == dgs.Is[dgs.k]
           newName == IName(dgs.intNum)
           Ga == SetDOTID(dgs.G, dgs.G.id \o <<"_a">>)
       IN  IF Nil \in I.nodes \/ MergePanics(dgs.G, I.nodes, newName)
           THEN dgs' = [dgs EXCEPT !.status = "panic"]
           ELSE dgs' = [dgs EXCEPT
                   !.Gs = IF dgs.rec THEN [@ EXCEPT ![Len(@)] = Ga] ELSE @,
                   !.G = SetDOTID(Merge(Ga, I.nodes, newName, attr),
                                  MergedID(dgs.i - 1, dgs.intNum)),
                   !.rec = FALSE,
                   !.intNum = @ + 1,
                   !.k = @ + 1]
    /\ UNCHANGED <<g, attr, pc, res, sl, tw>>

\* The end of a pass: G is renamed "G<i>" and appended to Gs.
DGSEndPass ==
    /\ pc = "dgs"
    /\ dgs.status = "merge"
    /\ dgs.k > Len(dgs.Is)
    /\ dgs' = [dgs EXCEPT !.G = SetDOTID(@, LevelID(dgs.i)),
                          !.Gs = Append(@, SetDOTID(dgs.G, LevelID(dgs.i))),
                          !.rec = TRUE,
                          !.i = @ + 1,
                          !.status = "test"]
    /\ UNCHANGED <<g, attr, pc, res, sl, tw>>

NextDerived == BuildEdge \/ DGSStart \/ DGSTest \/ DGSMerge \/ DGSEndPass

SpecDerived == Init /\ [][NextDerived]_vars

\* G without the node d and its edges.
Without(G, d) ==
    [G EXCEPT !.nodes = @ \ {d},
              !.edges = {e \in @ : e[1] # d /\ e[2] # d}]

\* d dominates n: every path from the entry to n passes through d.
Dominates(G, d, n) ==
    \/ d = n
    \/ d = G.entry
    \/ n \notin ReachFrom(Without(G, d), {G.entry})

\* A reducible graph: every cycle has a node that dominates all its nodes,
\* that is, without the edges whose head dominates their tail no cycle is
\* left.
Reducible(G) ==
    LET back == {e \in G.edges : Dominates(G, e[2], e[1])}
    IN  ~CycleWithin([G EXCEPT !.edges = @ \ back], G.nodes)

\* C4: on a reducible graph whose nodes are all reachable from the entry,
\* DerivedGraphSeq does not panic, and the last graph of the sequence it
\* returns has exactly one node.
C4_ReducibleEndsInOneNode ==
    (pc = "dgs" /\ AllReachable(g) /\ Reducible(g)) =>
        /\ dgs.status # "panic"
        /\ dgs.status = "returned" =>
              Cardinality(dgs.Gs[Len(dgs.Gs)].nodes) = 1

\* The last pass appended a graph with as many nodes as the one before.
NoCollapse ==
    /\ Len(dgs.Gs) >= 2
    /\ Cardinality(dgs.Gs[Len(dgs.Gs)].nodes) =
       Cardinality(dgs.Gs[Len(dgs.Gs) - 1].nodes)

\* C5: DerivedGraphSeq ends on every graph by returning the sequence: it
\* never panics, and after a pass that collapsed nothing it begins no
\* further pass.
C5_StopsWithoutCollapse ==
    pc = "dgs" =>
        /\ dgs.status # "panic"
        /\ NoCollapse => dgs.status \in {"test", "returned"}

\* A pass has just ended: the graph it derived is the last of Gs, and Is
\* holds the intervals of the graph before it.
PassEnded == pc = "dgs" /\ dgs.status = "test" /\ Len(dgs.Gs) >= 2

\* C16: the graph a pass derives has exactly as many nodes as the graph
\* before it has intervals, one node per interval and none of the nodes of
\* the graph before; in the whole sequence the number of nodes never grows
\* from one graph to the next.
C16_OneNodePerInterval ==
    /\ PassEnded =>
          LET later == dgs.Gs[Len(dgs.Gs)]
              earlier == dgs.Gs[Len(dgs.Gs) - 1]
          IN  /\ Cardinality(later.nodes) = Len(dgs.Is)
              /\ later.nodes =
                    {IName(dgs.intNum - k) : k \in 1..Len(dgs.Is)}
              /\ later.nodes \cap earlier.nodes = {}
    /\ pc = "dgs" =>
          \A j \in 1..(Len(dgs.Gs) - 1) :
              Cardinality(dgs.Gs[j + 1].nodes) <= Cardinality(dgs.Gs[j].nodes)

\* A pass over a graph of at least three nodes and two intervals has ended.
C16_Witness ==
    /\ PassEnded
    /\ Len(dgs.Is) >= 2
    /\ Cardinality(dgs.Gs[Len(dgs.Gs) - 1].nodes) >= 3

\* C17: a recorded graph is not changed by the later turns of the loop: in
\* every state of DerivedGraphSeq the i-th graph of Gs has the graph ID
\* "G<i>".
C17_RecordedKeepsID ==
    pc = "dgs" => \A i \in 1..Len(dgs.Gs) : dgs.Gs[i].id = LevelID(i)

(* --------------------------------------------------------------- struct2Way *)

RECURSIVE SomeEnumeration(_)
\* One of the enumerations of S.
SomeEnumeration(S) ==
    IF S = {} THEN <<>>
    ELSE LET x == CHOOSE y \in S : TRUE
         IN  <<x>> \o SomeEnumeration(S \ {x})

\* G.Nodes() of a numbered graph: one enumeration stands for all, since the
\* sorts by Post of a numbered graph have no ties (C9).
Nodes(G) == SomeEnumeration(G.nodes)

\* domtree.DominatorOf(n) of path.Dominators(G.Entry(), G): the immediate
\* dominator of n, nil for the root and for a node the root does not reach.
DominatorOf(G, n) ==
    IF n = Entry(G) \/ n \notin ReachFrom(G, {Entry(G)}) THEN Nil
    ELSE LET sdoms == {d \in G.nodes \ {n} : Dominates(G, d, n)}
         IN  CHOOSE d \in sdoms : \A e \in sdoms : Dominates(G, e, d)

RECURSIVE find2WayFollowNoInDegree(_, _, _, _, _)
\* find2WayFollow without the test len(G.To(i)) >= 2.
find2WayFollowNoInDegree(G, m, at, scan, n) ==
    IF scan = <<>> THEN n
    ELSE LET i == Head(scan)
         IN  find2WayFollowNoInDegree(G, m, at, Tail(scan),
                 IF /\ DominatorOf(G, i) = m
                    /\ (n = Nil \/ RevPost(G, at, i) > RevPost(G, at, n))
                 THEN i ELSE n)

RECURSIVE find2WayFollow(_, _, _, _, _)
\* find2WayFollow over the nodes still to scan, n the candidate so far: the
\* node of greatest reverse post-order number whose immediate dominator is m
\* and that has two or more predecessors; Nil when there is none.
find2WayFollow(G, m, at, scan, n) ==
    IF scan = <<>> THEN n
    ELSE LET i == Head(scan)
         IN  find2WayFollow(G, m, at, Tail(scan),
                 IF /\ DominatorOf(G, i) = m
                    /\ Cardinality(To(G, i)) >= 2
                    /\ (n = Nil \/ RevPost(G, at, i) > RevPost(G, at, n))
                 THEN i ELSE n)

\* Structure(g): InitDFSOrder(g), then struct2Way(g) up to its loop over
\* SortByPost(G.Nodes()). found records the nodes whose own call of
\* find2WayFollow gave them their follow.
StructureStart ==
    /\ pc = "build"
    /\ pc' = "2way"
    /\ attr' = InitDFSOrder(g, attr, Nodes(g))
    /\ tw' = [order |-> SortByPost(Nodes(g), attr'), j |-> 1,
              unresolved |-> {}, found |-> {}]
    /\ UNCHANGED <<g, res, dgs, sl>>

\* A turn of the loop that leaves the unresolved nodes as they are when m
\* finds a follow.
Struct2WayStepKeepsUnresolved ==
    /\ pc = "2way"
    /\ tw.j <= Len(tw.order)
    /\ LET m == tw.order[tw.j]
           n == find2WayFollow(g, m, attr, SortByRevPost(Nodes(g), attr), Nil)
       IN  IF \/ Cardinality(From(g, m)) # 2
              \/ attr[m].LoopHead = m
              \/ attr[m].IsLatch
           THEN /\ tw' = [tw EXCEPT !.j = @ + 1]
                /\ attr' = attr
           ELSE IF n # Nil
           THEN /\ attr' = [attr EXCEPT ![m].Follow = n]
                /\ tw' = [tw EXCEPT !.j = @ + 1, !.found = @ \cup {m}]
           ELSE /\ attr' = attr
                /\ tw' = [tw EXCEPT !.j = @ + 1, !.unresolved = @ \cup {m}]
    /\ UNCHANGED <<g, pc, res, dgs, sl>>

\* One turn of the loop of struct2Way, on the node m.
Struct2WayStep ==
    /\ pc = "2way"
    /\ tw.j <= Len(tw.order)
    /\ LET m == tw.order[tw.j]
           n == find2WayFollow(g, m, attr, SortByRevPost(Nodes(g), attr), Nil)
       IN  IF \/ Cardinality(From(g, m)) # 2
              \/ attr[m].LoopHead = m
              \/ attr[m].IsLatch
           THEN /\ tw' = [tw EXCEPT !.j = @ + 1]
                /\ attr' = attr
           ELSE IF n # Nil
           THEN /\ attr' = [x \in AllNames |->
                              IF x = m \/ x \in tw.unresolved
                              THEN [attr[x] EXCEPT !.Follow = n]
                              ELSE attr[x]]
                /\ tw' = [tw EXCEPT !.j = @ + 1, !.unresolved = {},
                                    !.found = @ \cup {m}]
           ELSE /\ attr' = attr
                /\ tw' = [tw EXCEPT !.j = @ + 1, !.unresolved = @ \cup {m}]
    /\ UNCHANGED <<g, pc, res, dgs, sl>>

Next2Way == BuildEdge \/ StructureStart \/ Struct2WayStep

Spec2Way == Init /\ [][Next2Way]_vars

\* struct2Way has visited every node.
Struct2WayDone == pc = "2way" /\ tw.j > Len(tw.order)

\* C7 as stated: after struct2Way, for every node m that carries a follow
\* f, whether it found it or received it while unresolved, the immediate
\* dominator of f is m and f has two or more predecessors.
C7_FollowOfEveryNode ==
    Struct2WayDone =>
        \A m \in g.nodes :
            attr[m].Follow # Nil =>
                /\ DominatorOf(g, attr[m].Follow) = m
                /\ Cardinality(To(g, attr[m].Follow)) >= 2

\* The place of a node in the order of the visit.
VisitIndex(m) == CHOOSE j \in DOMAIN tw.order : tw.order[j] = m

\* C7 amended: a follow f has two or more predecessors; for a node m that
\* found f itself the immediate dominator of f is m; a node that received f
\* while unresolved carries the follow of the node, visited after it, that
\* found f, and the immediate dominator of f is that node.
C7_FollowOfFinder ==
    pc = "2way" =>
        \A m \in g.nodes :
            attr[m].Follow # Nil =>
                /\ Cardinality(To(g, attr[m].Follow)) >= 2
                /\ m \in tw.found => DominatorOf(g, attr[m].Follow) = m
                /\ m \notin tw.found =>
                      \E x \in tw.found :
                          /\ VisitIndex(m) < VisitIndex(x)
                          /\ attr[x].Follow = attr[m].Follow
                          /\ DominatorOf(g, attr[m].Follow) = x

\* struct2Way has ended and a node that found no follow of its own carries
\* the follow a later node found.
C7_Witness ==
    /\ Struct2WayDone
    /\ \E m \in g.nodes : attr[m].Follow # Nil /\ m \notin tw.found
    /\ \E m \in tw.found : attr[m].Follow # Nil

RECURSIVE dfsVisit(_, _, _)
RECURSIVE dfsSuccs(_, _, _)
\* The depth first search InitDFSOrder makes, with the time of discovery
\* and the time of finish of every node.
dfsVisit(G, n, st) ==
    LET st1 == [st EXCEPT !.disc[n] = st.t, !.t = @ + 1, !.visited = @ \cup {n}]
        st2 == dfsSuccs(G, sortByDOTID(SomeEnumeration(From(G, n))), st1)
    IN  [st2 EXCEPT !.fin[n] = st2.t, !.t = @ + 1]

dfsSuccs(G, succs, st) ==
    IF succs = <<>> THEN st
    ELSE dfsSuccs(G, Tail(succs),
                  IF Head(succs) \in st.visited THEN st
                  ELSE dfsVisit(G, Head(succs), st))

dfsTimes(G) ==
    dfsVisit(G, G.entry, [disc |-> [n \in G.nodes |-> 0],
                          fin |-> [n \in G.nodes |-> 0],
                          t |-> 1, visited |-> {}])

\* v is an ancestor of u in the depth first search tree.
DFSAncestor(G, v, u) ==
    LET d == dfsTimes(G)
    IN  d.disc[v] < d.disc[u] /\ d.fin[u] < d.fin[v]

\* The edges of G that are not back edges: v is not u and is not an
\* ancestor of u.
ForwardEdges(G) ==
    {e \in G.edges : e[1] # e[2] /\ ~DFSAncestor(G, e[2], e[1])}

\* C22: on a graph whose nodes are all reachable from the entry, for every
\* edge (u, v) where v is not u and not an ancestor of u in the depth first
\* search, the reverse post-order number of u is smaller than that of v.
C22_RevPostTopological ==
    (pc = "numbered" /\ AllReachable(g)) =>
        \A e \in ForwardEdges(g) :
            RevPost(g, attr, e[1]) < RevPost(g, attr, e[2])

\* A numbered reachable graph with a back edge, and an edge that is not a
\* back edge to a node discovered before the tail of the edge.
C22_Witness ==
    /\ pc = "numbered"
    /\ AllReachable(g)
    /\ \E e \in g.edges : e[1] # e[2] /\ DFSAncestor(g, e[2], e[1])
    /\ \E e \in ForwardEdges(g) :
          dfsTimes(g).disc[e[2]] < dfsTimes(g).disc[e[1]]

\* The nodes struct2Way looks for a follow of: two successors, not the
\* header of a loop, not a latch.
Eligible(m) ==
    /\ Cardinality(From(g, m)) = 2
    /\ attr[m].LoopHead # m
    /\ ~attr[m].IsLatch

\* The place in the order of the visit of the last node that found a
\* follow, 0 when none did.
LastFinder ==
    IF tw.found = {} THEN 0
    ELSE CHOOSE j \in DOMAIN tw.order :
            /\ tw.order[j] \in tw.found
            /\ \A x \in tw.found : VisitIndex(x) <= j

\* The turn of the loop in which the node m finds a follow.
FinderTurn ==
    /\ pc = "2way" /\ pc' = "2way"
    /\ tw.j <= Len(tw.order)
    /\ tw'.found # tw.found

BackEdges(G) ==
    {e \in G.edges : e[1] = e[2] \/ DFSAncestor(G, e[2], e[1])}

\* C24: after Structure(g), a node that carries a follow has two successors
\* and is neither the target (the header of a loop) nor the tail (a latch)
\* of a back edge of g.
C24_NoFollowOnLoopNodes ==
    Struct2WayDone =>
        \A m \in g.nodes :
            attr[m].Follow # Nil =>
                /\ Cardinality(From(g, m)) = 2
                /\ \A e \in BackEdges(g) : e[1] # m /\ e[2] # m

(* --------------------------------------------------------------- structLoops *)

\* isBackEdge(pred, head): head.Pre < pred.Pre.
isBackEdge(at, pred, head) == at[head].Pre < at[pred].Pre

RECURSIVE findLatch(_, _, _, _, _)
\* findLatch over the predecessors of the header still to visit, latch the
\* candidate so far: the predecessor in I(h) with a back edge to h and the
\* greatest reverse post-order number; Nil when there is none.
findLatch(G, I, at, preds, latch) ==
    IF preds = <<>> THEN latch
    ELSE LET p == Head(preds)
         IN  findLatch(G, I, at, Tail(preds),
                 IF p \notin I.nodes \/ ~isBackEdge(at, p, I.Head) THEN latch
                 ELSE IF latch = Nil THEN p
                 ELSE IF RevPost(G, at, p) > RevPost(G, at, latch) THEN p
                 ELSE latch)

RECURSIVE loopMark(_, _, _, _, _, _)
\* The marking loop of loop(I, latch) over the nodes of I(h) still to visit:
\* st holds the node fields and the nodes of the loop found so far.
loopMark(G, head, latch, D, scan, st) ==
    IF scan = <<>> THEN st
    ELSE LET n == Head(scan)
         IN  IF RevPost(G, st.at, n) <= RevPost(G, st.at, head)
             THEN loopMark(G, head, latch, D, Tail(scan), st)
             ELSE IF RevPost(G, st.at, n) >= RevPost(G, st.at, latch)
             THEN st
             ELSE IF DominatorOf(D, n) \notin st.nodes
             THEN loopMark(G, head, latch, D, Tail(scan), st)
             ELSE loopMark(G, head, latch, D, Tail(scan),
                      [at |-> IF st.at[n].LoopHead = Nil
                              THEN [st.at EXCEPT ![n].LoopHead = head]
                              ELSE st.at,
                       nodes |-> st.nodes \cup {n}])

\* loopTypeOf that looks at the out-degree of the header only.
loopTypeOfHeaderOnly(G, head, latch) ==
    IF Cardinality(From(G, head)) = 2 THEN LoopTypePreTest ELSE LoopTypeEndless

\* The loop type loop(I, latch) derives from the out-degrees of the latch and
\* of the header; "panic" for a 2-way latch whose header is not 1-way.
\* The out-degrees are those of the whole graph: I.From passes through.
loopTypeOf(G, head, latch) ==
    IF Cardinality(From(G, latch)) = 2
    THEN IF Cardinality(From(G, head)) = 1 THEN LoopTypePostTest ELSE "panic"
    ELSE IF Cardinality(From(G, head)) = 2 THEN LoopTypePreTest
         ELSE LoopTypeEndless

\* The follow of a pre-test or post-test loop: of the two successors succs
\* of the header or latch, the second when the first is a node of the loop,
\* else the first.
loopFollow(succs, nodes) ==
    IF succs[1] \in nodes THEN succs[2] ELSE succs[1]

\* loop that returns after it has set the endless type.
loopEndlessReturns(G, I, latch, at, enum) ==
    LET head == I.Head
        at1 == [at EXCEPT ![head].LoopHead = head]
        D == [G EXCEPT !.entry = head]
        mk == loopMark(G, head, latch, D,
                       SortByRevPost(SortByRevPost(Enumerate(I.nodes, enum), at1), at1),
                       [at |-> at1, nodes |-> {head}])
        at2 == [mk.at EXCEPT ![latch].LoopHead = head]
        nodes == mk.nodes \cup {latch}
        type == loopTypeOf(G, head, latch)
    IN  IF type = "panic" THEN [at |-> at2, panic |-> TRUE]
        ELSE IF type = LoopTypePreTest
        THEN [at |-> [at2 EXCEPT ![head].LoopType = type,
                                 ![head].Follow =
                                     loopFollow(Enumerate(From(G, head), enum), nodes)],
              panic |-> FALSE]
        ELSE IF type = LoopTypePostTest
        THEN [at |-> [at2 EXCEPT ![head].LoopType = type,
                                 ![head].Follow =
                                     loopFollow(Enumerate(From(G, latch), enum), nodes)],
              panic |-> FALSE]
        ELSE [at |-> [at2 EXCEPT ![head].LoopType = type], panic |-> FALSE]

\* loop(I, latch): the node fields it leaves and whether it panics. enum is
\* the order in which the graph enumerates successors.
loop(G, I, latch, at, enum) ==
    LET head == I.Head
        at1 == [at EXCEPT ![head].LoopHead = head]
        D == [G EXCEPT !.entry = head]
        mk == loopMark(G, head, latch, D,
                       SortByRevPost(SortByRevPost(Enumerate(I.nodes, enum), at1), at1),
                       [at |-> at1, nodes |-> {head}])
        at2 == [mk.at EXCEPT ![latch].LoopHead = head]
        nodes == mk.nodes \cup {latch}
        type == loopTypeOf(G, head, latch)
    IN  IF type = "panic" THEN [at |-> at2, panic |-> TRUE]
        ELSE IF type = LoopTypePreTest
        THEN [at |-> [at2 EXCEPT ![head].LoopType = type,
                                 ![head].Follow =
                                     loopFollow(Enumerate(From(G, head), enum), nodes)],
              panic |-> FALSE]
        ELSE IF type = LoopTypePostTest
        THEN [at |-> [at2 EXCEPT ![head].LoopType = type,
                                 ![head].Follow =
                                     loopFollow(Enumerate(From(G, latch), enum), nodes)],
              panic |-> FALSE]
        ELSE [at |-> [at2 EXCEPT ![head].LoopType = type], panic |-> TRUE]

\* structLoops(G) after DerivedGraphSeq(G) has returned Gs. loops records the
\* calls of loop: the level of the graph, the header and the latch.
SLStart ==
    /\ pc = "dgs"
    /\ dgs.status = "returned"
    /\ pc' = "loops"
    /\ sl' = [lvl |-> 1, Is |-> <<>>, k |-> 1, status |-> "level", loops |-> {}]
    /\ UNCHANGED <<g, attr, res, dgs, tw>>

\* For the graph Gi: InitDFSOrder(Gi) and Intervals(Gi, Gi.Entry()).
SLLevel ==
    /\ pc = "loops"
    /\ sl.status = "level"
    /\ LET Gi == dgs.Gs[sl.lvl]
       IN  IF InitDFSOrderPanics(Gi)
           THEN attr' = attr /\ sl' = [sl EXCEPT !.status = "panic"]
           ELSE /\ attr' = InitDFSOrder(Gi, attr, Nodes(Gi))
                /\ LET r == Intervals(Gi, Entry(Gi), attr', Nodes(Gi))
                   IN  sl' = [sl EXCEPT !.Is = r.Is, !.k = 1,
                                        !.status = IF r.panic THEN "panic"
                                                   ELSE "intervals"]
    /\ UNCHANGED <<g, pc, res, dgs, tw>>

\* For the interval Ii: findLatch, and with a latch head.Latch, loop(Ii,
\* latch) and latch.IsLatch.
SLInterval ==
    /\ pc = "loops"
    /\ sl.status = "intervals"
    /\ sl.k <= Len(sl.Is)
    /\ LET Gi == dgs.Gs[sl.lvl]
           I == sl.Is[sl.k]
           latch == findLatch(Gi, I, attr, Enumerate(To(Gi, I.Head), Nodes(Gi)), Nil)
       IN  IF latch = Nil
           THEN attr' = attr /\ sl' = [sl EXCEPT !.k = @ + 1]
           ELSE \E enum \in Enumerations(Gi.nodes) :
                   LET r == loop(Gi, I, latch,
                                 [attr EXCEPT ![I.Head].Latch = latch], enum)
                   IN  /\ attr' = IF r.panic THEN r.at
                                  ELSE [r.at EXCEPT ![latch].IsLatch = TRUE]
                       /\ sl' = [sl EXCEPT
                                   !.k = @ + 1,
                                   !.loops = @ \cup {[lvl |-> sl.lvl, head |-> I.Head,
                                                     latch |-> latch]},
                                   !.status = IF r.panic THEN "panic" ELSE @]
    /\ UNCHANGED <<g, pc, res, dgs, tw>>

\* The intervals of Gi are done: the next graph of Gs, or the end.
SLNextLevel ==
    /\ pc = "loops"
    /\ sl.status = "intervals"
    /\ sl.k > Len(sl.Is)
    /\ sl' = [sl EXCEPT !.lvl = @ + 1,
                        !.status = IF sl.lvl + 1 > Len(dgs.Gs) THEN "done"
                                   ELSE "level"]
    /\ UNCHANGED <<g, attr, pc, res, dgs, tw>>

NextLoops ==
    \/ BuildEdge \/ DGSStart \/ DGSTest \/ DGSMerge \/ DGSEndPass
    \/ SLStart \/ SLLevel \/ SLInterval \/ SLNextLevel

SpecLoops == Init /\ [][NextLoops]_vars

\* C10: for every loop found, with header h and latch l, the loop type of h
\* is post-test when l has out-degree 2 and h out-degree 1, pre-test when l
\* has out-degree 1 and h out-degree 2, endless when both have out-degree 1;
\* and a node that has a loop type is the header of a loop found.
C10_LoopClassification ==
    pc = "loops" =>
        /\ \A lp \in sl.loops :
              LET outL == Cardinality(From(dgs.Gs[lp.lvl], lp.latch))
                  outH == Cardinality(From(dgs.Gs[lp.lvl], lp.head))
                  type == attr[lp.head].LoopType
              IN  /\ (outL = 2 /\ outH = 1) => type = LoopTypePostTest
                  /\ (outL = 1 /\ outH = 2) => type = LoopTypePreTest
                  /\ (outL = 1 /\ outH = 1) => type = LoopTypeEndless
        /\ \A n \in AllNames :
              attr[n].LoopType # LoopTypeNone => \E lp \in sl.loops : lp.head = n

\* loop has classified a post-test loop with a node between header and
\* latch, and left its other nodes without a loop type.
C10_Witness ==
    /\ pc = "loops"
    /\ \E lp \in sl.loops :
          /\ Cardinality(From(dgs.Gs[lp.lvl], lp.latch)) = 2
          /\ Cardinality(From(dgs.Gs[lp.lvl], lp.head)) = 1
          /\ attr[lp.head].LoopType = LoopTypePostTest
          /\ attr[lp.latch].LoopType = LoopTypeNone
          /\ \E n \in g.nodes \ {lp.head, lp.latch} : attr[n].LoopHead = lp.head

(* ---------------------------------------------------------------- generator *)

\* The parser's result for a 2-way node: its two outgoing edges carry the
\* labels "true" and "false".
BuildLabel ==
    /\ pc = "build"
    /\ \E n \in g.nodes :
          /\ Cardinality(From(g, n)) = 2
          /\ \A v \in From(g, n) : g.label[<<n, v>>] = ""
          /\ \E t \in From(g, n) :
                g' = [g EXCEPT !.label =
                         [e \in DOMAIN g.label |->
                             IF e[1] # n THEN g.label[e]
                             ELSE IF e[2] = t THEN "true" ELSE "false"]]
    /\ UNCHANGED <<attr, pc, res, dgs, sl, tw>>

\* g.TrueTarget(n) and g.FalseTarget(n): the successor of n over the edge
\* labelled l; Nil (a fatal error) when no edge of n carries the label.
BranchTarget(G, n, l) ==
    LET c == {v \in From(G, n) : G.label[<<n, v>>] = l}
    IN  IF c = {} THEN Nil ELSE CHOOSE v \in c : TRUE

\* &ast.LabeledStmt{Label: l_<n>, Stmt: ...}: stmt is "return", "empty",
\* "if" (body) or "ifelse" (body and els).
LabeledStmt(n, stmt, body, els) ==
    [kind |-> "labeled", label |-> n, stmt |-> stmt, body |-> body, els |-> els]

\* A goto whose label names no node.
BranchStmtNoTarget(n) ==
    [kind |-> "goto", label |-> Nil, stmt |-> "", body |-> <<>>, els |-> <<>>]

\* &ast.BranchStmt{Tok: token.GOTO, Label: l_<n>}.
BranchStmt(n) ==
    [kind |-> "goto", label |-> n, stmt |-> "", body |-> <<>>, els |-> <<>>]

\* The panic of an unresolved 2-way node, without the name of the node.
PanicNoFollowUnnamed(n) == [kind |-> "no follow", n |-> Nil]

\* panic("... no follow node for %q", n.DOTID()).
PanicNoFollow(n) == [kind |-> "no follow", n |-> n]

\* The generator after a panic of the given kind.
GenPanic(st, err) == [st EXCEPT !.panic = TRUE, !.err = err]

\* gen.cur.List = append(gen.cur.List, stmt).
Emit(st, stmt) == [st EXCEPT !.cur = Append(@, stmt)]

\* A call of genCode: st.calls counts the calls made.
Called(st) == [st EXCEPT !.calls = @ + 1]

\* A call that leaves gen.done as it is.
MarkDoneNothing(st, n) == st

\* gen.done[n] = true.
MarkDone(st, n) == [st EXCEPT !.done = @ \cup {n}]

RECURSIVE genCode(_, _, _, _, _)
\* gen.genCode(n, ifFollow). st holds gen.done, the list of the block
\* gen.cur, and whether and how the generator has panicked.
genCode(G, at, n, ifFollow, st) ==
    IF st.panic THEN st
    ELSE IF ifFollow # Nil /\ n = ifFollow THEN Called(st)
    ELSE IF n \in st.done THEN Emit(Called(st), BranchStmt(n))
    ELSE
    LET st1 == MarkDone(Called(st), n)
        succs == From(G, n)
        F == at[n].Follow
        t == BranchTarget(G, n, "true")
        f == BranchTarget(G, n, "false")
        \* the body of a branch: genCode into a new block
        tBody == genCode(G, at, t, F, [st1 EXCEPT !.cur = <<>>])
        fBodyOnly == genCode(G, at, f, F, [st1 EXCEPT !.cur = <<>>])
        fBody == genCode(G, at, f, F, [tBody EXCEPT !.cur = <<>>])
        \* gen.cur = bak, the labelled if appended
        close(b, stmt, body, els) ==
            IF b.panic THEN b
            ELSE Emit([b EXCEPT !.cur = st1.cur], LabeledStmt(n, stmt, body, els))
        after ==
            IF t = F THEN close(fBodyOnly, "if", fBodyOnly.cur, <<>>)
            ELSE IF f = F THEN close(tBody, "if", tBody.cur, <<>>)
            ELSE close(fBody, "ifelse", tBody.cur, fBody.cur)
    IN  IF Cardinality(succs) = 0
        THEN Emit(st1, LabeledStmt(n, "return", <<>>, <<>>))
        ELSE IF Cardinality(succs) = 1
        THEN genCode(G, at, CHOOSE v \in succs : TRUE, ifFollow,
                     Emit(st1, LabeledStmt(n, "empty", <<>>, <<>>)))
        ELSE IF Cardinality(succs) = 2
        THEN IF F = Nil THEN GenPanic(st1, PanicNoFollow(n))
             ELSE IF t = Nil \/ f = Nil
             THEN GenPanic(st1, [kind |-> "branch target", n |-> n])
             ELSE IF t = F /\ f = F
             THEN GenPanic(st1, [kind |-> "multiple edges to follow", n |-> Nil])
             ELSE genCode(G, at, F, at[F].Follow, after)
        ELSE GenPanic(st1, [kind |-> "successors", n |-> Nil])

\* genFunc(g): genCode from the entry with the follow of the entry; the
\* body of the function is the list of gen.cur.
genFunc(G, at) ==
    genCode(G, at, Entry(G), at[Entry(G)].Follow,
            [done |-> {}, cur |-> <<>>, panic |-> FALSE,
             err |-> [kind |-> "", n |-> Nil], calls |-> 0])

\* genFunc(g) after Structure(g).
GenFunc ==
    /\ Struct2WayDone
    /\ pc' = "gen"
    /\ res' = genFunc(g, attr)
    /\ UNCHANGED <<g, attr, dgs, sl, tw>>

NextGen == BuildEdge \/ BuildLabel \/ StructureStart \/ Struct2WayStep \/ GenFunc

SpecGen == Init /\ [][NextGen]_vars

RECURSIVE StmtsOf(_)
\* Every statement of a block and of the blocks nested in it.
StmtsOf(list) ==
    IF list = <<>> THEN <<>>
    ELSE <<Head(list)>> \o StmtsOf(Head(list).body) \o StmtsOf(Head(list).els)
         \o StmtsOf(Tail(list))

\* How many labelled statements of the tree carry the label of n, and the
\* nodes whose label a goto of the tree targets.
LabelCount(list, n) ==
    LET ss == StmtsOf(list)
    IN  Cardinality({i \in DOMAIN ss : ss[i].kind = "labeled" /\ ss[i].label = n})

GotoTargets(list) ==
    LET ss == StmtsOf(list)
    IN  {ss[i].label : i \in {j \in DOMAIN ss : ss[j].kind = "goto"}}

\* genFunc has returned a tree.
GenReturned == pc = "gen" /\ ~res.panic

\* C11: in every tree the generator returns each label is attached to at
\* most one labelled statement, and every goto targets a label attached to a
\* labelled statement of the tree.
C11_LabelsAndGotos ==
    GenReturned =>
        /\ \A n \in AllNames \cup {Nil} : LabelCount(res.cur, n) <= 1
        /\ \A n \in GotoTargets(res.cur) : LabelCount(res.cur, n) = 1

\* A returned tree with an if-else, a goto inside a branch and several
\* labelled statements.
C11_Witness ==
    /\ GenReturned
    /\ GotoTargets(res.cur) # {}
    /\ \E i \in DOMAIN res.cur :
          /\ res.cur[i].stmt = "ifelse"
          /\ GotoTargets(res.cur[i].body) \cup GotoTargets(res.cur[i].els) # {}
    /\ Cardinality({n \in g.nodes : LabelCount(res.cur, n) = 1}) >= 3

\* C12: when genFunc returns a tree, every node reachable from the entry has
\* exactly one labelled statement in it.
C12_NoBlockDropped ==
    GenReturned =>
        \A n \in ReachFrom(g, {Entry(g)}) : LabelCount(res.cur, n) = 1

\* C13: a node the generator has visited (marked done) that has out-degree 2
\* and no follow ends the generation in a panic that names the node, and no
\* tree is returned; a visited node with more than two successors ends it in
\* a panic too.
C13_UnresolvedIsFatal ==
    pc = "gen" =>
        \A n \in res.done :
            /\ (Cardinality(From(g, n)) = 2 /\ attr[n].Follow = Nil) =>
                  res.panic /\ res.err = [kind |-> "no follow", n |-> n]
            /\ Cardinality(From(g, n)) > 2 =>
                  res.panic /\ res.err.kind = "successors"

\* The generator has panicked on an unresolved 2-way node it reached after
\* it had emitted statements for other nodes.
C13_Witness ==
    /\ pc = "gen"
    /\ res.panic
    /\ res.err.kind = "no follow"
    /\ Cardinality(res.done) >= 2
    /\ res.err.n \in res.done \ {Entry(g)}
    /\ res.cur # <<>>

RECURSIVE BlocksOf(_)
\* The blocks of a tree: the list itself and the lists of the arms of its
\* statements, at every depth.
BlocksOf(list) ==
    IF list = <<>> THEN {<<>>}
    ELSE {list} \cup BlocksOf(Head(list).body) \cup BlocksOf(Head(list).els)
         \cup BlocksOf(Tail(list))

\* The statement s is the labelled if statement of a 2-way node.
IsIfOf(s) == s.kind = "labeled" /\ s.stmt \in {"if", "ifelse"}

\* The statement generated for the node F: its labelled statement, or the
\* goto to its label when F was done before.
IsStmtFor(s, F) == s.kind \in {"labeled", "goto"} /\ s.label = F

\* The statement for the follow comes right after the if statement of n, in
\* the block that holds it.
FollowAfterIf ==
    \A b \in BlocksOf(res.cur) :
        \A i \in DOMAIN b :
            IsIfOf(b[i]) =>
                /\ i + 1 \in DOMAIN b
                /\ IsStmtFor(b[i + 1], attr[b[i].label].Follow)

\* The labelled statement of the follow of n is in no arm of n, at any
\* depth.
FollowNotInArms ==
    \A b \in BlocksOf(res.cur) :
        \A i \in DOMAIN b :
            IsIfOf(b[i]) =>
                /\ LabelCount(b[i].body, attr[b[i].label].Follow) = 0
                /\ LabelCount(b[i].els, attr[b[i].label].Follow) = 0

\* C29: in every tree the generator returns, for every 2-way node n with
\* the follow F the statement generated for F comes after the if statement
\* of n in the block that holds it, and the labelled statement of F is in
\* no arm of n nor in an arm of a conditional nested in the arms of n.
C29_FollowInParentBlock == GenReturned => (FollowAfterIf /\ FollowNotInArms)

\* The loops whose header and latch both have one successor.
EndlessLoops ==
    {lp \in sl.loops :
        /\ Cardinality(From(dgs.Gs[lp.lvl], lp.latch)) = 1
        /\ Cardinality(From(dgs.Gs[lp.lvl], lp.head)) = 1}

\* C19 as stated: for a loop whose header and latch both have one
\* successor, loop returns normally, with the loop type endless and no
\* follow on the header.
C19_EndlessCompletes ==
    pc = "loops" =>
        \A lp \in EndlessLoops :
            /\ attr[lp.head].LoopType = LoopTypeEndless
            /\ attr[lp.head].Follow = Nil
            /\ sl.status # "panic"

\* C19: for a loop whose header and latch both have one successor, loop
\* sets the loop type endless on the header, sets no follow, and then
\* panics: structLoops does not go on.
C19_EndlessIsFatal ==
    pc = "loops" =>
        \A lp \in EndlessLoops :
            /\ attr[lp.head].LoopType = LoopTypeEndless
            /\ attr[lp.head].Follow = Nil
            /\ sl.status = "panic"

\* loop has been called for a loop of at least three nodes whose header and
\* latch have one successor each.
C19_Witness ==
    /\ pc = "loops"
    /\ \E lp \in EndlessLoops :
          /\ lp.head # lp.latch
          /\ attr[lp.head].LoopType = LoopTypeEndless
          /\ \E n \in g.nodes \ {lp.head, lp.latch} : attr[n].LoopHead = lp.head

\* The interval findLatch was last called on, in the graph of the level.
LatchCalled == pc = "loops" /\ sl.status = "intervals" /\ sl.k > 1

\* The tails of the back edges to the header h of I inside I(h): the
\* predecessors p in I(h) that h does not finish before (h is an ancestor of
\* p in the depth first search, or p is h).
BackEdgeTails(G, I, at) ==
    {p \in To(G, I.Head) \cap I.nodes : at[I.Head].Post >= at[p].Post}

\* C21: findLatch returns a latch whenever a predecessor of h in I(h) is the
\* tail of a back edge to h, a self-loop on h included; the latch is the
\* tail with the greatest reverse post-order number; it reports no latch
\* only when there is no such predecessor.
C21_LatchOfBackEdge ==
    LatchCalled =>
        LET Gi == dgs.Gs[sl.lvl]
            I == sl.Is[sl.k - 1]
            tails == BackEdgeTails(Gi, I, attr)
            found == {lp \in sl.loops : lp.lvl = sl.lvl /\ lp.head = I.Head}
        IN  /\ tails # {} => found # {}
            /\ tails = {} => found = {}
            /\ \A lp \in found :
                  /\ lp.latch \in tails
                  /\ \A p \in tails :
                        RevPost(Gi, attr, p) <= RevPost(Gi, attr, lp.latch)

\* The loops loop was called for in the graph of the level structLoops is
\* at, whose intervals are sl.Is.
LoopsOfLevel == {lp \in sl.loops : lp.lvl = sl.lvl}

\* The nodes loop(I, latch) marks as belonging to the loop lp: the header,
\* the nodes the marking adds, the latch.
LoopNodes(lp) ==
    LET Gi == dgs.Gs[lp.lvl]
        I == CHOOSE J \in {sl.Is[k] : k \in DOMAIN sl.Is} : J.Head = lp.head
    IN  loopMark(Gi, lp.head, lp.latch, [Gi EXCEPT !.entry = lp.head],
                 SortByRevPost(SomeEnumeration(I.nodes), attr),
                 [at |-> attr, nodes |-> {lp.head}]).nodes \cup {lp.latch}

\* C25: the follow of a pre-test loop is a successor of the header that is
\* not a node of the loop; the follow of a post-test loop is a successor of
\* the latch that is not a node of the loop.
C25_FollowOutsideLoop ==
    pc = "loops" =>
        \A lp \in LoopsOfLevel :
            LET Gi == dgs.Gs[lp.lvl]
                f == attr[lp.head].Follow
            IN  /\ attr[lp.head].LoopType = LoopTypePreTest =>
                      f \in From(Gi, lp.head) \ LoopNodes(lp)
                /\ attr[lp.head].LoopType = LoopTypePostTest =>
                      f \in From(Gi, lp.latch) \ LoopNodes(lp)

(* ------------------------------------------------------------- CompoundCond *)

\* The four idioms, in the order of the table.
CondKinds == <<"AND", "OR", "NAND", "NOR">>

\* The name "<x>_Cond<KIND>" of the node that replaces x and y. The suffix
\* is coded in the number: a name C<4*num(x) + kind + MaxNodes> is the name
\* of x with the suffix of the kind (the numbers of the B names are at most
\* MaxNodes, so the names are distinct).
CondName(x, k) == [pre |-> "C", num |-> 4 * x.num + k + MaxNodes]

\* The idiom of kind k at x with the successor y: x and y of out-degree 2,
\* y of in-degree 1, and the labels of the table.
\*   AND : x.true = y,       x.false = y.false
\*   OR  : x.true = y.true,  x.false = y
\*   NAND: x.true = y.false, x.false = y
\*   NOR : x.true = y,       x.false = y.true
IsIdiom(G, x, y, k) ==
    LET xt == BranchTarget(G, x, "true")
        xf == BranchTarget(G, x, "false")
        yt == BranchTarget(G, y, "true")
        yf == BranchTarget(G, y, "false")
    IN  /\ x # y
        /\ Cardinality(From(G, x)) = 2
        /\ y \in From(G, x)
        /\ To(G, y) = {x}
        /\ Cardinality(From(G, y)) = 2
        /\ xt # Nil /\ xf # Nil /\ yt # Nil /\ yf # Nil
        /\ \/ k = 1 /\ xt = y /\ xf = yf
           \/ k = 2 /\ xt = yt /\ xf = y
           \/ k = 3 /\ xt = yf /\ xf = y
           \/ k = 4 /\ xt = y /\ xf = yt

\* The idioms a pass can detect in G.
Idioms(G) ==
    {i \in [x : G.nodes, y : G.nodes, k : DOMAIN CondKinds] :
        IsIdiom(G, i.x, i.y, i.k)}

\* The fold of an idiom: Merge of {x, y} into the new node, then the labels
\* "true" on the edge to t = y.true and "false" on the edge to e = y.false.
Fold(G, i, at) ==
    LET new == CondName(i.x, i.k)
        t == BranchTarget(G, i.y, "true")
        e == BranchTarget(G, i.y, "false")
        M == Merge(G, {i.x, i.y}, new, at)
    IN  [M EXCEPT !.label =
            [ed \in DOMAIN M.label |->
                IF ed[1] = new /\ ed[2] = t THEN "true"
                ELSE IF ed[1] = new /\ ed[2] = e THEN "false"
                ELSE M.label[ed]]]

\* A pass that stops although an idiom is left.
NoIdiomLeftUnchecked(G) == TRUE

\* The end of the iteration: a pass has found no idiom.
NoIdiomLeft(G) == Idioms(G) = {}

\* The node objects with the zero node for a new name.
WithNode(at, n) == (n :> ZeroNode) @@ at

RECURSIVE CompoundCond(_, _)
\* CompoundCond(g): fold an idiom and restart, until no idiom is found.
CompoundCond(G, at) ==
    IF Idioms(G) = {} THEN G
    ELSE LET i == CHOOSE j \in Idioms(G) : TRUE
         IN  CompoundCond(Fold(G, i, WithNode(at, CondName(i.x, i.k))),
                          WithNode(at, CondName(i.x, i.k)))

\* CompoundCond called on the parsed graph. res holds the graph of the pass
\* and what the last fold was.
CondStart ==
    /\ pc = "build"
    /\ pc' = "cond"
    /\ res' = [G |-> g, folds |-> 0, before |-> g,
               last |-> [x |-> Nil, y |-> Nil, k |-> 0], again |-> g]
    /\ UNCHANGED <<g, attr, dgs, sl, tw>>

\* One pass that finds an idiom: which idiom the traversal meets first is
\* left open.
CondFold ==
    /\ pc = "cond"
    /\ \E i \in Idioms(res.G) :
          /\ attr' = WithNode(attr, CondName(i.x, i.k))
          /\ res' = [res EXCEPT !.G = Fold(res.G, i, attr'),
                                !.folds = @ + 1,
                                !.before = res.G,
                                !.last = i]
    /\ UNCHANGED <<g, pc, dgs, sl, tw>>

\* The pass that finds no idiom: CompoundCond returns the graph; the pass is
\* then run on the graph it returned.
CondReturn ==
    /\ pc = "cond"
    /\ NoIdiomLeft(res.G)
    /\ pc' = "folded"
    /\ res' = [res EXCEPT !.again = CompoundCond(res.G, attr)]
    /\ UNCHANGED <<g, attr, dgs, sl, tw>>

NextCond == BuildEdge \/ BuildLabel \/ CondStart \/ CondFold \/ CondReturn

SpecCond == Init /\ [][NextCond]_vars

\* The last fold: the graph before it, its nodes and targets, its new node.
FoldDone == pc \in {"cond", "folded"} /\ res.folds > 0

FoldT == BranchTarget(res.before, res.last.y, "true")

FoldE == BranchTarget(res.before, res.last.y, "false")

FoldNew == CondName(res.last.x, res.last.k)

\* The nodes and the edges away from x and y are the ones before the fold.
OthersUnchanged ==
    LET B == res.before
        S == {res.last.x, res.last.y}
    IN  /\ res.G.nodes = (B.nodes \ S) \cup {FoldNew}
        /\ \A ed \in B.edges :
              (ed[1] \notin S /\ ed[2] \notin S) =>
                  ed \in res.G.edges /\ res.G.label[ed] = B.label[ed]
        /\ \A ed \in res.G.edges :
              (ed[1] # FoldNew /\ ed[2] # FoldNew) => ed \in B.edges

\* The new node has exactly the edge "true" to t and the edge "false" to e.
TwoBranches ==
    /\ From(res.G, FoldNew) = {FoldT, FoldE}
    /\ FoldT # FoldE
    /\ res.G.label[<<FoldNew, FoldT>>] = "true"
    /\ res.G.label[<<FoldNew, FoldE>>] = "false"

\* C14: the fold of an idiom at x and y replaces x and y by the one node
\* "<x>_Cond<KIND>" with exactly two outgoing edges, "true" to t and "false"
\* to e, and leaves all other nodes and edges unchanged.
C14_FoldShape == FoldDone => (OthersUnchanged /\ TwoBranches)

CopyParsed ==
    /\ pc = "build"
    /\ pc' = "copied"
    /\ res' = [src |-> g, merged |-> FALSE, dst |-> Copy(g, attr)]
    /\ UNCHANGED <<g, attr, dgs, sl, tw>>

\* Copy(dst, src) with dst = NewGraph() and src a graph Merge returned, as
\* in the first lines of the next call of Merge.
CopyMerged ==
    /\ pc = "build"
    /\ \E S \in SUBSET g.nodes, m \in MergeNames :
          /\ ~MergePanics(g, S, m)
          /\ res' = [src |-> Merge(g, S, m, attr), merged |-> TRUE,
                     dst |-> Copy(Merge(g, S, m, attr), attr)]
    /\ pc' = "copied"
    /\ UNCHANGED <<g, attr, dgs, sl, tw>>

NextCopy == BuildEdge \/ BuildLabel \/ CopyParsed \/ CopyMerged

SpecCopy == Init /\ [][NextCopy]_vars

\* C18: Copy into an empty destination yields a graph with the graph ID,
\* the nodes (the node objects, so their names and attributes), the entry
\* node, the edges and the edge labels of the source.
C18_CopySame ==
    pc = "copied" =>
        /\ res.dst.id = res.src.id
        /\ res.dst.nodes = res.src.nodes
        /\ res.dst.edges = res.src.edges
        /\ res.dst.label = res.src.label
        /\ res.dst.entry = res.src.entry

(* ----------------------------------------------------- Merge, labelled edges *)

\* cfg.Merge called on a parsed graph whose 2-way nodes may carry the
\* labels "true" and "false" on their edges.
NextMergeLabelled == BuildEdge \/ BuildLabel \/ DoMerge

SpecMergeLabelled == Init /\ [][NextMergeLabelled]_vars

\* C27: Merge(G,S,m) keeps every edge of G between two nodes outside S,
\* with its label, and adds no other edge between nodes of G; every edge
\* into or out of the new node m carries no label, also when m has two
\* successors.
C27_MergeLabels ==
    (pc = "merged" /\ ~res.panic) =>
        /\ \A e \in g.edges :
              (e[1] \notin res.del /\ e[2] \notin res.del) =>
                  e \in res.dst.edges /\ res.dst.label[e] = g.label[e]
        /\ \A e \in res.dst.edges :
              (e[1] # res.new /\ e[2] # res.new) => e \in g.edges
        /\ \A e \in res.dst.edges :
              (e[1] = res.new \/ e[2] = res.new) => res.dst.label[e] = ""

\* A merge of a set whose edges out were labelled: the new node has two
\* successors and a predecessor outside, and a labelled edge between two
\* nodes outside the set is kept.
C27_Witness ==
    /\ pc = "merged" /\ ~res.panic
    /\ Cardinality(From(res.dst, res.new)) = 2
    /\ To(res.dst, res.new) # {}
    /\ \E e \in g.edges : e[1] \in res.del /\ e[2] \notin res.del /\ g.label[e] # ""
    /\ \E e \in res.dst.edges :
          e[1] # res.new /\ e[2] # res.new /\ res.dst.label[e] = "true"

(* --------------------------------------------------- Merge after Structure *)

\* cfg.Merge called on the graph Structure has annotated: the nodes of the
\* result that are not new are the node objects of the source.
MergeStructured ==
    /\ Struct2WayDone
    /\ \E S \in SUBSET g.nodes, m \in MergeNames :
          /\ S # {}
          /\ ~MergePanics(g, S, m)
          /\ res' = [del |-> S, new |-> m, dst |-> Merge(g, S, m, attr)]
    /\ pc' = "merged"
    /\ UNCHANGED <<g, attr, dgs, sl, tw>>

NextMergeStructured ==
    BuildEdge \/ StructureStart \/ Struct2WayStep \/ MergeStructured

SpecMergeStructured == Init /\ [][NextMergeStructured]_vars

\* C28: in the graph Merge returns, also for a source annotated before the
\* merge, the follow, the loopHead and the latch of every node are null or
\* nodes of that graph.
C28_AnnotationsInGraph ==
    pc = "merged" =>
        \A n \in res.dst.nodes :
            /\ attr[n].Follow \in res.dst.nodes \cup {Nil}
            /\ attr[n].LoopHead \in res.dst.nodes \cup {Nil}
            /\ attr[n].Latch \in res.dst.nodes \cup {Nil}

(* ------------------------------------------- genFunc, any follow annotations *)

\* The parsed graph is complete: every 2-way node has its labelled edges.
AllLabelled ==
    \A n \in g.nodes :
        Cardinality(From(g, n)) = 2 => BranchTarget(g, n, "true") # Nil

\* genFunc(g) on a graph whose nodes carry any follow annotations.
GenAnyFollow ==
    /\ pc = "build"
    /\ AllLabelled
    /\ \E fol \in [g.nodes -> g.nodes \cup {Nil}] :
          /\ attr' = [n \in DOMAIN attr |->
                        IF n \in g.nodes THEN [attr[n] EXCEPT !.Follow = fol[n]]
                        ELSE attr[n]]
          /\ res' = genFunc(g, attr')
    /\ pc' = "gen"
    /\ UNCHANGED <<g, dgs, sl, tw>>

NextGenAny == BuildEdge \/ BuildLabel \/ GenAnyFollow

SpecGenAny == Init /\ [][NextGenAny]_vars

\* C30: genFunc ends on every graph and every assignment of follows. A call
\* of genCode returns at once or marks a node of the graph that was not
\* done, and makes at most three calls: the call on the entry returns at
\* once only when the entry is its own follow, else the entry is done; the
\* done nodes are nodes of the graph; the calls are at most three for each
\* done node and one.
C30_GeneratorTerminates ==
    pc = "gen" =>
        /\ Entry(g) \in res.done \/ attr[Entry(g)].Follow = Entry(g)
        /\ res.done \subseteq g.nodes
        /\ res.calls >= 1
        /\ res.calls <= 3 * Cardinality(res.done) + 1

\* genFunc has returned a tree on a graph with a cycle, with a goto to a
\* node done before and a call that returned at the inherited follow.
C30_Witness ==
    /\ GenReturned
    /\ CycleWithin(g, g.nodes)
    /\ GotoTargets(res.cur) # {}
    /\ res.calls > Cardinality(res.done) + Cardinality(GotoTargets(res.cur))
    /\ Cardinality(res.done) >= 3

====
